---- MODULE Spec2Model ----
(***************************************************************************)
(* Verification model of the arith-funs package: the polynomial handlers   *)
(* (src/src/polynomial.js), the rational-function handlers                 *)
(* (rational-func.js) and the number-theory handlers                       *)
(* (src/src/number-theory.js).  Polynomials are objects carrying a         *)
(* coefficient sequence (ascending order) and a degree field; coefficients *)
(* are exact rationals of @ratmath/core.  args is the argument list of a   *)
(* number-theory or piecewise call.  polynomial.js also carries the        *)
(* piecewise and step handlers (PiecewiseFunctions).                       *)
(***************************************************************************)
EXTENDS Integers, Sequences, FiniteSets, TLC

VARIABLES P, Q, R, a, out, heap, args

vars == <<P, Q, R, a, out, heap, args>>

(***************************************************************************)
(* Bounds of the model.                                                    *)
(***************************************************************************)
\* longest coefficient list handed to Poly
MaxLen == 3
\* largest absolute value of an input coefficient
MaxCoef == 2
\* largest absolute numerator of an input rational (evaluation point, shift)
MaxNum == 2
\* largest denominator of an input rational
MaxDen == 2
\* largest absolute numerator of a coefficient kept in a register
CapNum == 2
\* largest denominator of a coefficient kept in a register
CapDen == 2
\* highest derivative order requested
MaxDer == 2
\* largest absolute value of a coefficient handed to Poly in Spec
MaxCoefC == 1
\* longest coefficient list and largest coefficient in SpecAdd and SpecDist
MaxLenA == 2
MaxCoefA == 1
\* most polynomial objects and most arrays allocated in SpecHeap
MaxObjs == 3
MaxArrays == 16
\* longest coefficient array and largest numerator and denominator of a
\* polynomial object kept in SpecHeap
MaxLenH == 4
CapNumH == 9
CapDenH == 3
\* longest coefficient list and largest coefficient in SpecRoots
MaxLenR == 3
MaxCoefR == 3
\* largest absolute value of an integer argument in SpecNum
MaxArg == 8
\* most arguments and largest absolute value of an argument in SpecArgs
MaxArgs == 2
MaxArgV == 6

(***************************************************************************)
(* Exact rationals (@ratmath/core Rational): numerator/denominator in      *)
(* lowest terms, denominator positive.                                     *)
(***************************************************************************)
AbsInt(n) == IF n < 0 THEN -n ELSE n

RECURSIVE GcdNat(_, _)
GcdNat(m, n) == IF n = 0 THEN m ELSE GcdNat(n, m % n)

\* new Rational(n, d): reduces to lowest terms, sign carried by the numerator
Rational(n, d) ==
    LET g == GcdNat(AbsInt(n), AbsInt(d))
        sg == IF d < 0 THEN -1 ELSE 1
    IN [numerator |-> sg * (n \div g), denominator |-> sg * (d \div g)]

RatZero == [numerator |-> 0, denominator |-> 1]

RatAdd(x, y) ==
    Rational(x.numerator * y.denominator + y.numerator * x.denominator,
             x.denominator * y.denominator)

RatSub(x, y) ==
    Rational(x.numerator * y.denominator - y.numerator * x.denominator,
             x.denominator * y.denominator)

RatMul(x, y) ==
    Rational(x.numerator * y.numerator, x.denominator * y.denominator)

\* y must be nonzero
RatDiv(x, y) ==
    Rational(x.numerator * y.denominator, x.denominator * y.numerator)

RatNeg(x) == [numerator |-> -x.numerator, denominator |-> x.denominator]

\* a.compare(b): -1, 0 or 1
RatCompare(x, y) ==
    LET d == x.numerator * y.denominator - y.numerator * x.denominator
    IN IF d < 0 THEN -1 ELSE IF d > 0 THEN 1 ELSE 0

\* Rational.toString(): "n" for an integer and "n/d" otherwise, an injective
\* rendering of the lowest-terms pair
RatToString(x) ==
    IF x.denominator = 1 THEN <<x.numerator>> ELSE <<x.numerator, "/", x.denominator>>

(***************************************************************************)
(* Helpers of polynomial.js                                                *)
(***************************************************************************)
\* makeCoeffSequence: the sequence object wrapping a coefficient array
makeCoeffSequence(coeffs) ==
    [type |-> "sequence", values |-> coeffs,
     lastValue |-> IF Len(coeffs) > 0 THEN <<coeffs[Len(coeffs)]>> ELSE <<>>]

\* extractCoeffs: the coefficient array of a sequence object or of a
\* polynomial object (through its coeffs decoration)
extractCoeffs(poly) ==
    IF poly.type = "sequence" THEN poly.values ELSE poly.coeffs.values

\* trimCoeffs: drop zero coefficients from the high end, never below index 0
RECURSIVE trimEnd(_, _)
trimEnd(coeffs, end) ==
    IF end > 1 /\ coeffs[end].numerator = 0 THEN trimEnd(coeffs, end - 1) ELSE end

trimCoeffs(coeffs) == SubSeq(coeffs, 1, trimEnd(coeffs, Len(coeffs)))

\* hornerEval: fold from the highest coefficient down, result*x + coeffs[i]
RECURSIVE hornerLoop(_, _, _, _)
hornerLoop(coeffs, x, i, result) ==
    IF i < 1 THEN result
    ELSE hornerLoop(coeffs, x, i - 1, RatAdd(RatMul(result, x), coeffs[i]))

\* faulty variant: the fold adds the coefficient before multiplying by x
RECURSIVE hornerLoopAddFirst(_, _, _, _)
hornerLoopAddFirst(coeffs, x, i, result) ==
    IF i < 1 THEN result
    ELSE hornerLoopAddFirst(coeffs, x, i - 1, RatMul(RatAdd(result, coeffs[i]), x))

hornerEvalAddFirst(coeffs, x) ==
    IF Len(coeffs) = 0 THEN RatZero
    ELSE hornerLoopAddFirst(coeffs, x, Len(coeffs) - 1, coeffs[Len(coeffs)])

hornerEval(coeffs, x) ==
    IF Len(coeffs) = 0 THEN RatZero
    ELSE hornerLoop(coeffs, x, Len(coeffs) - 1, coeffs[Len(coeffs)])

Reverse(seq) == [i \in 1..Len(seq) |-> seq[Len(seq) + 1 - i]]

\* synthDivide: synthetic division by (x - c) on descending coefficients;
\* the running values are the quotient (descending) followed by the remainder
RECURSIVE synthLoop(_, _, _, _)
synthLoop(descCoeffs, c, i, result) ==
    IF i > Len(descCoeffs) THEN result
    ELSE synthLoop(descCoeffs, c, i + 1,
                   Append(result, RatAdd(RatMul(result[i - 1], c), descCoeffs[i])))

\* faulty variant of PolyAdd below: the loop runs to the length of p only
PolyAddLenOfP(p, q) ==
    LET pCoeffs == p.coeffs.values
        qCoeffs == q.coeffs.values
        result == [i \in 1..Len(pCoeffs) |->
                     RatAdd(pCoeffs[i], IF i <= Len(qCoeffs) THEN qCoeffs[i] ELSE RatZero)]
        end == trimEnd(result, Len(result))
    IN [type |-> "polynomial",
        coeffs |-> [type |-> "sequence", values |-> SubSeq(result, 1, end),
                    lastValue |-> IF end > 0 THEN <<result[end]>> ELSE <<>>],
        degree |-> end - 1]

\* faulty variant: the coefficients are not put in descending order first
synthDivideAscending(coeffs, c) ==
    IF Len(coeffs) = 0 THEN [quotient |-> <<>>, remainder |-> RatZero]
    ELSE LET n == Len(coeffs)
             result == synthLoop(coeffs, c, 2, <<coeffs[1]>>)
         IN [quotient |-> Reverse(SubSeq(result, 1, n - 1)), remainder |-> result[n]]

synthDivide(coeffs, c) ==
    IF Len(coeffs) = 0 THEN [quotient |-> <<>>, remainder |-> RatZero]
    ELSE LET n == Len(coeffs)
             descCoeffs == Reverse(coeffs)
             result == synthLoop(descCoeffs, c, 2, <<descCoeffs[1]>>)
         IN [quotient |-> Reverse(SubSeq(result, 1, n - 1)), remainder |-> result[n]]

(***************************************************************************)
(* Handlers of PolynomialFunctions                                         *)
(***************************************************************************)
\* the object literal every arithmetic handler returns
PolyObject(coeffs, degree) ==
    [type |-> "polynomial", coeffs |-> makeCoeffSequence(coeffs), degree |-> degree]

Poly(coeffs) ==
    LET trimmed == trimCoeffs(extractCoeffs(coeffs))
    IN [type |-> "polynomial", coeffs |-> makeCoeffSequence(trimmed),
        degree |-> Len(trimmed) - 1, variable |-> "x"]

PolyCoeffs(poly) == poly.coeffs

PolyEval(poly, x) == hornerEval(extractCoeffs(poly), x)

\* coefficient i (1-based) of a list padded with zeros
Padded(coeffs, i) == IF i <= Len(coeffs) THEN coeffs[i] ELSE RatZero

MaxInt(m, n) == IF m >= n THEN m ELSE n

\* the result array of the PolyAdd loop, before trimming
addResult(pCoeffs, qCoeffs) ==
    [i \in 1..MaxInt(Len(pCoeffs), Len(qCoeffs)) |->
        RatAdd(Padded(pCoeffs, i), Padded(qCoeffs, i))]

PolyAdd(p, q) ==
    LET trimmed == trimCoeffs(addResult(extractCoeffs(p), extractCoeffs(q)))
    IN PolyObject(trimmed, Len(trimmed) - 1)

\* the result array of the PolySub loop, before trimming
subResult(pCoeffs, qCoeffs) ==
    [i \in 1..MaxInt(Len(pCoeffs), Len(qCoeffs)) |->
        RatSub(Padded(pCoeffs, i), Padded(qCoeffs, i))]

PolySub(p, q) ==
    LET trimmed == trimCoeffs(subResult(extractCoeffs(p), extractCoeffs(q)))
    IN PolyObject(trimmed, Len(trimmed) - 1)

\* result[k] accumulated over all i, j with i + j = k (0-based), in loop order
RECURSIVE mulCell(_, _, _, _, _)
mulCell(pCoeffs, qCoeffs, k, i, acc) ==
    IF i > Len(pCoeffs) THEN acc
    ELSE LET j == k + 1 - i
         IN mulCell(pCoeffs, qCoeffs, k, i + 1,
                    IF j >= 1 /\ j <= Len(qCoeffs)
                    THEN RatAdd(acc, RatMul(pCoeffs[i], qCoeffs[j]))
                    ELSE acc)

\* the result array of the PolyMul loops, before trimming (both non-empty)
mulResult(pCoeffs, qCoeffs) ==
    [k \in 1..(Len(pCoeffs) + Len(qCoeffs) - 1) |->
        mulCell(pCoeffs, qCoeffs, k, 1, RatZero)]

PolyMul(p, q) ==
    LET pCoeffs == extractCoeffs(p)
        qCoeffs == extractCoeffs(q)
    IN IF Len(pCoeffs) = 0 \/ Len(qCoeffs) = 0
       THEN PolyObject(<<RatZero>>, -1)
       ELSE LET trimmed == trimCoeffs(mulResult(pCoeffs, qCoeffs))
            IN PolyObject(trimmed, Len(trimmed) - 1)

\* coeffs.map(coef => coef.multiply(cRat))
scaleResult(coeffs, c) == [i \in 1..Len(coeffs) |-> RatMul(coeffs[i], c)]

PolyScale(poly, c) ==
    LET trimmed == trimCoeffs(scaleResult(extractCoeffs(poly), c))
    IN PolyObject(trimmed, Len(trimmed) - 1)

\* coeffs.map(c => c.negate())
negResult(coeffs) == [i \in 1..Len(coeffs) |-> RatNeg(coeffs[i])]

PolyNeg(poly) ==
    LET result == negResult(extractCoeffs(poly))
    IN PolyObject(result, Len(result) - 1)

\* faulty variant: the factor is the new index plus one, not the old index
derStepNextIndex(coeffs) ==
    [i \in 1..(Len(coeffs) - 1) |-> RatMul(coeffs[i + 1], Rational(i + 1, 1))]

\* one pass of the derivative loop: coeffs[i]*i moved one index down
derStep(coeffs) ==
    [i \in 1..(Len(coeffs) - 1) |-> RatMul(coeffs[i + 1], Rational(i, 1))]

RECURSIVE derLoop(_, _, _)
derLoop(coeffs, t, times) ==
    IF t >= times THEN coeffs
    ELSE IF Len(coeffs) <= 1 THEN <<RatZero>>
    ELSE derLoop(derStep(coeffs), t + 1, times)

PolyDer(poly, n) ==
    LET trimmed == trimCoeffs(derLoop(extractCoeffs(poly), 0, n))
    IN PolyObject(trimmed, Len(trimmed) - 1)

\* the result array of PolyInt: the constant, then coeffs[i]/(i+1)
intResult(coeffs, c) ==
    <<c>> \o [i \in 1..Len(coeffs) |-> RatDiv(coeffs[i], Rational(i, 1))]

PolyInt(poly, c) ==
    LET trimmed == trimCoeffs(intResult(extractCoeffs(poly), c))
    IN PolyObject(trimmed, Len(trimmed) - 1)

\* SynthDiv: the sequence object {quotient, remainder}
SynthDiv(poly, c) ==
    LET d == synthDivide(extractCoeffs(poly), c)
        quotient == PolyObject(d.quotient, Len(d.quotient) - 1)
    IN [type |-> "sequence", values |-> <<quotient, d.remainder>>,
        lastValue |-> d.remainder, quotient |-> quotient, remainder |-> d.remainder]

\* faulty variant: the quotient is left highest coefficient first
SynthDivPolyDescending(poly, c) ==
    LET quotient == Reverse(synthDivide(extractCoeffs(poly), c).quotient)
    IN PolyObject(quotient, Len(quotient) - 1)

SynthDivPoly(poly, c) ==
    LET quotient == synthDivide(extractCoeffs(poly), c).quotient
    IN PolyObject(quotient, Len(quotient) - 1)

SynthDivRem(poly, c) == hornerEval(extractCoeffs(poly), c)

\* PolyRebase: the loop bound coeffs.length is re-read on every iteration,
\* after coeffs has been replaced by the quotient
RECURSIVE rebaseLoop(_, _, _, _)
rebaseLoop(coeffs, aRat, i, taylorCoeffs) ==
    IF i < Len(coeffs)
    THEN LET d == synthDivide(coeffs, aRat)
         IN rebaseLoop(d.quotient, aRat, i + 1, Append(taylorCoeffs, d.remainder))
    ELSE taylorCoeffs

PolyRebase(poly, aRat) ==
    LET taylorCoeffs == rebaseLoop(extractCoeffs(poly), aRat, 0, <<>>)
    IN [type |-> "polynomial", coeffs |-> makeCoeffSequence(taylorCoeffs),
        degree |-> Len(taylorCoeffs) - 1, base |-> aRat]

\* coeffs.filter(c => c.numerator !== 0n)
RECURSIVE nonZeroOf(_)
nonZeroOf(coeffs) ==
    IF Len(coeffs) = 0 THEN <<>>
    ELSE IF coeffs[1].numerator # 0 THEN <<coeffs[1]>> \o nonZeroOf(Tail(coeffs))
    ELSE nonZeroOf(Tail(coeffs))

\* the sign-change loop: adjacent entries with different (numerator > 0)
RECURSIVE signChangeLoop(_, _, _)
signChangeLoop(nonZero, i, changes) ==
    IF i > Len(nonZero) THEN changes
    ELSE signChangeLoop(nonZero, i + 1,
            IF (nonZero[i - 1].numerator > 0) # (nonZero[i].numerator > 0)
            THEN changes + 1 ELSE changes)

\* faulty variant: the zero coefficients are not filtered out before counting
signChangesKeepZeros(coeffs) == signChangeLoop(coeffs, 2, 0)

signChanges(coeffs) == signChangeLoop(nonZeroOf(coeffs), 2, 0)

PolySignChanges(poly) == signChanges(extractCoeffs(poly))

\* coeffs.map((c, i) => i % 2 === 1 ? c.negate() : c), i counted from 0
negOddCoeffs(coeffs) ==
    [i \in 1..Len(coeffs) |-> IF (i - 1) % 2 = 1 THEN RatNeg(coeffs[i]) ELSE coeffs[i]]

\* for (k = changes; k >= 0; k -= 2) push k
RECURSIVE possibleCounts(_)
possibleCounts(k) == IF k < 0 THEN <<>> ELSE <<k>> \o possibleCounts(k - 2)

PolyDescartes(poly) ==
    LET coeffs == extractCoeffs(poly)
        posChanges == signChanges(coeffs)
        negChanges == signChanges(negOddCoeffs(coeffs))
        possiblePos == possibleCounts(posChanges)
        possibleNeg == possibleCounts(negChanges)
    IN [type |-> "sequence",
        values |-> <<[type |-> "string", value |-> "positiveRoots"],
                     [type |-> "sequence", values |-> possiblePos],
                     [type |-> "string", value |-> "negativeRoots"],
                     [type |-> "sequence", values |-> possibleNeg]>>,
        positiveChanges |-> posChanges,
        negativeChanges |-> negChanges,
        possiblePositive |-> possiblePos,
        possibleNegative |-> possibleNeg]

\* the divisor loop of PolyRatRoots: for i with i*i <= p, push i and p/i
RECURSIVE divisorLoop(_, _, _)
divisorLoop(p, i, divs) ==
    IF i * i > p THEN divs
    ELSE divisorLoop(p, i + 1,
            IF p % i = 0
            THEN IF i * i # p THEN divs \o <<i, p \div i>> ELSE Append(divs, i)
            ELSE divs)

\* faulty variant: the cofactor p/i is not pushed
RECURSIVE divisorLoopNoCofactor(_, _, _)
divisorLoopNoCofactor(p, i, divs) ==
    IF i * i > p THEN divs
    ELSE divisorLoopNoCofactor(p, i + 1, IF p % i = 0 THEN Append(divs, i) ELSE divs)

divisorsNoCofactor(p) == divisorLoopNoCofactor(p, 1, <<>>)

divisors(p) == divisorLoop(p, 1, <<>>)

\* one candidate: skipped when its key was tested, kept when it evaluates to 0
testCandidate(coeffs, st, candidate) ==
    IF RatToString(candidate) \in st.tested THEN st
    ELSE [tested |-> st.tested \cup {RatToString(candidate)},
          roots |-> IF hornerEval(coeffs, candidate).numerator = 0
                    THEN Append(st.roots, candidate) ELSE st.roots]

\* the nested loops over pDivs and qDivs, k counting the pairs in loop order
RECURSIVE candidateLoop(_, _, _, _, _)
candidateLoop(coeffs, pDivs, qDivs, k, st) ==
    IF k >= Len(pDivs) * Len(qDivs) THEN st
    ELSE LET pVal == pDivs[(k \div Len(qDivs)) + 1]
             qVal == qDivs[(k % Len(qDivs)) + 1]
             afterPos == testCandidate(coeffs, st, Rational(pVal, qVal))
             afterNeg == testCandidate(coeffs, afterPos, Rational(-pVal, qVal))
         IN candidateLoop(coeffs, pDivs, qDivs, k + 1, afterNeg)

\* roots.sort((a, b) => a.compare(b))
RECURSIVE insertSorted(_, _)
insertSorted(sorted, x) ==
    IF Len(sorted) = 0 THEN <<x>>
    ELSE IF RatCompare(x, sorted[Len(sorted)]) >= 0 THEN Append(sorted, x)
    ELSE Append(insertSorted(SubSeq(sorted, 1, Len(sorted) - 1), x), sorted[Len(sorted)])

RECURSIVE sortRoots(_, _)
sortRoots(roots, n) ==
    IF n = 0 THEN <<>> ELSE insertSorted(sortRoots(roots, n - 1), roots[n])

PolyRatRoots(poly) ==
    LET coeffs == extractCoeffs(poly)
    IN IF Len(coeffs) = 0 THEN [type |-> "sequence", values |-> <<>>]
       ELSE LET a0 == coeffs[1]
                an == coeffs[Len(coeffs)]
                p == AbsInt(a0.numerator)
                q == AbsInt(an.numerator)
            IN IF p = 0 \/ q = 0
               THEN [type |-> "sequence", values |-> <<>>, lastValue |-> <<>>]
               ELSE LET found == candidateLoop(coeffs, divisors(p), divisors(q), 0,
                                               [tested |-> {}, roots |-> <<>>]).roots
                        roots == sortRoots(found, Len(found))
                    IN [type |-> "sequence", values |-> roots,
                        lastValue |-> IF Len(roots) > 0 THEN <<roots[Len(roots)]>> ELSE <<>>]

(***************************************************************************)
(* Inputs                                                                  *)
(***************************************************************************)
\* a host sequence value {c1, ..., cn}
SeqValue(values) == [type |-> "sequence", values |-> values]

\* integer coefficient lists of length 0..len with entries in -c..c
CoeffLists(len, c) ==
    UNION {[1..n -> {Rational(k, 1) : k \in -c..c}] : n \in 0..len}

RatInputs == {Rational(n, d) : n \in -MaxNum..MaxNum, d \in 1..MaxDen}

PolyInputs == {Poly(SeqValue(l)) : l \in CoeffLists(MaxLen, MaxCoef)}

NoOp == [op |-> "none"]

\* no array and no polynomial object allocated
EmptyHeap == [arrays |-> <<>>, polys |-> <<>>]

ZeroPoly == Poly(SeqValue(<<RatZero>>))

\* same polynomial value: same coefficient sequence and same degree
SamePoly(p, q) == extractCoeffs(p) = extractCoeffs(q) /\ p.degree = q.degree

(***************************************************************************)
(* SpecEval: one polynomial and one rational are given; each action calls  *)
(* one handler on them and records what it returned.                       *)
(***************************************************************************)
\* the polynomial of the Descartes tests, 3x^3 - x^2 + 2x - 4
EvalExamples ==
    {<<Rational(-4, 1), Rational(2, 1), Rational(-1, 1), Rational(3, 1)>>,
     <<Rational(-6, 1), Rational(11, 1), Rational(-6, 1), Rational(1, 1)>>}

InitEval ==
    /\ P \in PolyInputs \cup {Poly(SeqValue(l)) : l \in EvalExamples}
    /\ a \in RatInputs
    /\ Q = ZeroPoly
    /\ R = ZeroPoly
    /\ out = NoOp
    /\ heap = EmptyHeap
    /\ args = <<>>

CallPolyEval ==
    /\ out' = [op |-> "PolyEval", val |-> PolyEval(P, a)]
    /\ UNCHANGED <<P, Q, R, a, heap, args>>

CallSynthDiv ==
    /\ out' = [op |-> "SynthDiv", val |-> SynthDiv(P, a)]
    /\ UNCHANGED <<P, Q, R, a, heap, args>>

CallSynthDivRem ==
    /\ out' = [op |-> "SynthDivRem", val |-> SynthDivRem(P, a)]
    /\ UNCHANGED <<P, Q, R, a, heap, args>>

CallSynthDivPoly ==
    /\ out' = [op |-> "SynthDivPoly", val |-> SynthDivPoly(P, a)]
    /\ UNCHANGED <<P, Q, R, a, heap, args>>

CallPolyRebase ==
    /\ out' = [op |-> "PolyRebase", val |-> PolyRebase(P, a)]
    /\ UNCHANGED <<P, Q, R, a, heap, args>>

CallPolySignChanges ==
    /\ out' = [op |-> "PolySignChanges", val |-> PolySignChanges(P)]
    /\ UNCHANGED <<P, Q, R, a, heap, args>>

CallPolyDescartes ==
    /\ out' = [op |-> "PolyDescartes", val |-> PolyDescartes(P)]
    /\ UNCHANGED <<P, Q, R, a, heap, args>>

NextEval ==
    \/ CallPolyEval
    \/ CallSynthDiv
    \/ CallSynthDivRem
    \/ CallSynthDivPoly
    \/ CallPolyRebase
    \/ CallPolySignChanges
    \/ CallPolyDescartes

SpecEval == InitEval /\ [][NextEval]_vars

(***************************************************************************)
(* Reference definitions used by the properties                            *)
(***************************************************************************)
RECURSIVE RatPow(_, _)
RatPow(x, k) == IF k = 0 THEN Rational(1, 1) ELSE RatMul(x, RatPow(x, k - 1))

\* term-by-term sum of coeffs[i] * x^i (i counted from 0)
RECURSIVE NaiveSum(_, _, _)
NaiveSum(coeffs, x, n) ==
    IF n = 0 THEN RatZero
    ELSE RatAdd(NaiveSum(coeffs, x, n - 1), RatMul(coeffs[n], RatPow(x, n - 1)))

NaiveEval(coeffs, x) == NaiveSum(coeffs, x, Len(coeffs))

(***************************************************************************)
(* Properties                                                              *)
(***************************************************************************)
\* C1: the coefficient sequence returned by PolyRebase(P, a), summed as
\* t[k]*s^k at any shift s, equals PolyEval(P, a+s).
C1_RebaseShiftedEval ==
    out.op = "PolyRebase" =>
        \A s \in RatInputs :
            NaiveEval(extractCoeffs(out.val), s) = PolyEval(P, RatAdd(a, s))

\* C2: the remainder of synthetic division of P by (x - c), from SynthDiv and
\* from SynthDivRem, equals PolyEval(P, c).
C2_RemainderIsEval ==
    /\ out.op = "SynthDiv" => out.val.remainder = PolyEval(P, a)
    /\ out.op = "SynthDivRem" => out.val = PolyEval(P, a)

C2_Witness ==
    /\ out.op = "SynthDiv"
    /\ P.degree >= 2
    /\ a.denominator > 1
    /\ out.val.remainder.numerator # 0

\* C5: PolyEval(P, x), the Horner fold, equals the term-by-term sum of
\* coeff[i] * x^i.
C5_HornerIsNaiveSum ==
    out.op = "PolyEval" => out.val = NaiveEval(extractCoeffs(P), a)

C5_Witness ==
    /\ out.op = "PolyEval"
    /\ P.degree >= 2
    /\ a.denominator > 1
    /\ out.val.denominator > 1

\* the number of sign changes among the nonzero entries: pairs i < j of
\* nonzero entries of opposite sign with only zeros between them
RefSignChanges(coeffs) ==
    Cardinality({pair \in (1..Len(coeffs)) \X (1..Len(coeffs)) :
        /\ pair[1] < pair[2]
        /\ coeffs[pair[1]].numerator * coeffs[pair[2]].numerator < 0
        /\ \A k \in (pair[1] + 1)..(pair[2] - 1) : coeffs[k].numerator = 0})

\* v, v-2, v-4, ... down to the last value >= 0
RefCounts(v) == [i \in 1..((v \div 2) + 1) |-> v - 2 * (i - 1)]

\* the coefficients of P(-x): coefficient i multiplied by (-1)^i
RefReflected(coeffs) ==
    [i \in 1..Len(coeffs) |-> RatMul(coeffs[i], RatPow(Rational(-1, 1), i - 1))]

\* C13: PolyDescartes(P) reports positiveChanges = v, the number of sign
\* changes among the nonzero coefficients of P, possiblePositive = v, v-2, ...
\* down to the last value >= 0, and negativeChanges and possibleNegative the
\* same for P(-x); PolySignChanges(P) returns v; for Poly({-4,2,-1,3}) there
\* are 3 changes and the possible positive counts are {3, 1}.
C13_DescartesCounts ==
    LET coeffs == extractCoeffs(P)
        v == RefSignChanges(coeffs)
        vNeg == RefSignChanges(RefReflected(coeffs))
    IN /\ out.op = "PolySignChanges" => out.val = v
       /\ out.op = "PolyDescartes" =>
            /\ out.val.positiveChanges = v
            /\ out.val.possiblePositive = RefCounts(v)
            /\ out.val.negativeChanges = vNeg
            /\ out.val.possibleNegative = RefCounts(vNeg)
            /\ out.val.values[2].values = RefCounts(v)
            /\ out.val.values[4].values = RefCounts(vNeg)
            /\ (coeffs \in EvalExamples =>
                    /\ out.val.positiveChanges = 3
                    /\ out.val.possiblePositive = <<3, 1>>)

C13_Witness ==
    /\ out.op = "PolyDescartes"
    /\ extractCoeffs(P) \in EvalExamples
    /\ out.val.possiblePositive = <<3, 1>>
    /\ out.val.possibleNegative = <<0>>

(***************************************************************************)
(* Spec: two host variables P and Q hold polynomial values.  Q is bound to *)
(* a freshly constructed polynomial or to the value of P; every other      *)
(* action calls one handler on the current values and binds P to what it   *)
(* returned.  Values are kept only while their coefficients stay within    *)
(* the caps.                                                               *)
(***************************************************************************)
WithinCaps(poly) ==
    LET coeffs == extractCoeffs(poly)
    IN /\ Len(coeffs) <= MaxLen
       /\ \A i \in 1..Len(coeffs) :
            /\ AbsInt(coeffs[i].numerator) <= CapNum
            /\ coeffs[i].denominator <= CapDen

Bind(op, result) ==
    /\ WithinCaps(result)
    /\ P' = result
    /\ out' = [op |-> op]
    /\ UNCHANGED <<Q, R, a, heap, args>>

PolyInputsC == {Poly(SeqValue(l)) : l \in CoeffLists(MaxLen, MaxCoefC)}

Init ==
    /\ P \in PolyInputsC
    /\ Q \in PolyInputsC
    /\ R = ZeroPoly
    /\ a = RatZero
    /\ out = [op |-> "Poly"]
    /\ heap = EmptyHeap
    /\ args = <<>>

DoPoly ==
    \E l \in CoeffLists(MaxLen, MaxCoefC) :
        /\ Q' = Poly(SeqValue(l))
        /\ UNCHANGED <<P, R, a, out, heap, args>>

DoPolyAdd == Bind("PolyAdd", PolyAdd(P, Q))

DoPolySub == Bind("PolySub", PolySub(P, Q))

DoPolyMul == Bind("PolyMul", PolyMul(P, Q))

DoPolyScale == \E c \in RatInputs : Bind("PolyScale", PolyScale(P, c))

DoPolyNeg == Bind("PolyNeg", PolyNeg(P))

DoPolyDer == \E n \in 1..MaxDer : Bind("PolyDer", PolyDer(P, n))

DoPolyInt == \E c \in RatInputs : Bind("PolyInt", PolyInt(P, c))

DoSynthDivPoly == \E c \in RatInputs : Bind("SynthDivPoly", SynthDivPoly(P, c))

DoPolyRebase == \E c \in RatInputs : Bind("PolyRebase", PolyRebase(P, c))

Next ==
    \/ DoPoly
    \/ DoPolyAdd
    \/ DoPolySub
    \/ DoPolyMul
    \/ DoPolyScale
    \/ DoPolyNeg
    \/ DoPolyDer
    \/ DoPolyInt
    \/ DoSynthDivPoly
    \/ DoPolyRebase

Spec == Init /\ [][Next]_vars

\* every coefficient is zero
AllZero(poly) ==
    \A i \in 1..Len(extractCoeffs(poly)) : extractCoeffs(poly)[i].numerator = 0

\* the canonical additive identity: degree -1 and a single zero coefficient
CanonicalZero(poly) ==
    /\ poly.degree = -1
    /\ extractCoeffs(poly) = <<RatZero>>

\* C3: every polynomial value reachable through the handlers is the zero
\* polynomial or has a nonzero coefficient at its highest index, with its
\* degree field equal to that index.
C3_CanonicalForm ==
    \A poly \in {P, Q} :
        \/ AllZero(poly)
        \/ LET coeffs == extractCoeffs(poly)
           IN /\ Len(coeffs) > 0
              /\ coeffs[Len(coeffs)].numerator # 0
              /\ poly.degree = Len(coeffs) - 1

\* C4: every operation whose result is the zero polynomial returns degree -1
\* and a coefficient sequence consisting of a single zero.
C4_ZeroIsCanonical ==
    \A poly \in {P, Q} : AllZero(poly) => CanonicalZero(poly)

\* C11: for every polynomial value the handlers can produce, the derivative
\* of its integral with constant 0 is that polynomial again: same coefficient
\* sequence and same degree.
C11_DerOfIntIsIdentity ==
    \A poly \in {P, Q} : SamePoly(PolyDer(PolyInt(poly, RatZero), 1), poly)

\* C12: for every polynomial value the handlers can produce, Poly applied to
\* its own coefficient sequence returns the same coefficient sequence and the
\* same degree.
C12_RoundTrip ==
    \A poly \in {P, Q} : SamePoly(Poly(PolyCoeffs(poly)), poly)

(***************************************************************************)
(* SpecRoots: root search on one polynomial.                               *)
(***************************************************************************)
\* the polynomials of the PolyRatRoots tests
RootExamples ==
    {<<Rational(6, 1), Rational(-5, 1), Rational(1, 1)>>,
     <<Rational(1, 1), Rational(0, 1), Rational(1, 1)>>}

RootInputs ==
    {Poly(SeqValue(l)) : l \in CoeffLists(MaxLenR, MaxCoefR) \cup RootExamples}

InitRoots ==
    /\ P \in RootInputs
    /\ Q = ZeroPoly
    /\ R = ZeroPoly
    /\ a = RatZero
    /\ out = NoOp
    /\ heap = EmptyHeap
    /\ args = <<>>

CallPolyRatRoots ==
    /\ out' = [op |-> "PolyRatRoots", val |-> PolyRatRoots(P)]
    /\ UNCHANGED <<P, Q, R, a, heap, args>>

NextRoots == CallPolyRatRoots

SpecRoots == InitRoots /\ [][NextRoots]_vars

IntegerCoeffs(poly) ==
    \A i \in 1..Len(extractCoeffs(poly)) : extractCoeffs(poly)[i].denominator = 1

ConstantTerm(poly) == extractCoeffs(poly)[1]

LeadingCoeff(poly) == extractCoeffs(poly)[Len(extractCoeffs(poly))]

\* a rational root n/d in lowest terms of an integer polynomial has n dividing
\* the constant term and d dividing the leading coefficient, so all rational
\* roots lie in this set
RootUniverse(poly) ==
    {Rational(n, d) : n \in -AbsInt(ConstantTerm(poly).numerator)
                             ..AbsInt(ConstantTerm(poly).numerator),
                      d \in 1..AbsInt(LeadingCoeff(poly).numerator)}

IsRoot(poly, r) == PolyEval(poly, r).numerator = 0

SeqRange(seq) == {seq[i] : i \in 1..Len(seq)}

\* C7: for integer coefficients with nonzero constant term and nonzero
\* leading coefficient, PolyRatRoots returns exactly the rational roots:
\* every value is a root, every rational root is a value, and the values are
\* strictly ascending (so none appears twice).
C7_RatRootsExact ==
    (/\ out.op = "PolyRatRoots"
     /\ Len(extractCoeffs(P)) > 0
     /\ IntegerCoeffs(P)
     /\ ConstantTerm(P).numerator # 0
     /\ LeadingCoeff(P).numerator # 0)
    => LET roots == out.val.values
       IN /\ \A i \in 1..Len(roots) : IsRoot(P, roots[i])
          /\ \A r \in RootUniverse(P) : IsRoot(P, r) => r \in SeqRange(roots)
          /\ \A i \in 1..Len(roots) : \A j \in 1..Len(roots) :
                i < j => RatCompare(roots[i], roots[j]) < 0
          /\ (extractCoeffs(P) = <<Rational(6, 1), Rational(-5, 1), Rational(1, 1)>>
                => roots = <<Rational(2, 1), Rational(3, 1)>>)
          /\ (extractCoeffs(P) = <<Rational(1, 1), Rational(0, 1), Rational(1, 1)>>
                => roots = <<>>)

C7_Witness ==
    /\ out.op = "PolyRatRoots"
    /\ Len(extractCoeffs(P)) = 3
    /\ IntegerCoeffs(P)
    /\ ConstantTerm(P).numerator # 0
    /\ Len(out.val.values) = 2
    /\ out.val.values[1].numerator < 0
    /\ out.val.values[2].denominator > 1

\* the coefficients of P / x^k, k the multiplicity of the root 0
RECURSIVE StripX(_)
StripX(coeffs) ==
    IF Len(coeffs) > 1 /\ coeffs[1].numerator = 0 THEN StripX(Tail(coeffs)) ELSE coeffs

\* C8: for a nonzero polynomial with zero constant term PolyRatRoots returns
\* the root 0 together with the rational roots of P / x^k.
C8_ZeroRootFactored ==
    (/\ out.op = "PolyRatRoots"
     /\ Len(extractCoeffs(P)) > 0
     /\ ~AllZero(P)
     /\ ConstantTerm(P).numerator = 0)
    => SeqRange(out.val.values) =
          {RatZero} \cup
          SeqRange(PolyRatRoots(Poly(SeqValue(StripX(extractCoeffs(P))))).values)

(***************************************************************************)
(* SpecAdd: two polynomials are given and PolyAdd is called on them.       *)
(***************************************************************************)
PolyInputsA == {Poly(SeqValue(l)) : l \in CoeffLists(MaxLenA, MaxCoefA)}

InitAdd ==
    /\ P \in PolyInputsA
    /\ Q \in PolyInputsA
    /\ R = ZeroPoly
    /\ a = RatZero
    /\ out = NoOp
    /\ heap = EmptyHeap
    /\ args = <<>>

CallPolyAdd ==
    /\ out' = [op |-> "PolyAdd", val |-> PolyAdd(P, Q)]
    /\ UNCHANGED <<P, Q, R, a, heap, args>>

NextAdd == CallPolyAdd

SpecAdd == InitAdd /\ [][NextAdd]_vars

\* C10: PolyAdd(P, Q) equals PolyAdd(Q, P): same coefficient sequence and
\* same degree, for operands of equal or different lengths.
C10_AddCommutes ==
    out.op = "PolyAdd" => SamePoly(out.val, PolyAdd(Q, P))

C10_Witness ==
    /\ out.op = "PolyAdd"
    /\ Len(extractCoeffs(P)) < Len(extractCoeffs(Q))
    /\ Len(extractCoeffs(P)) > 0
    /\ out.val.degree = 1
    /\ extractCoeffs(out.val)[1].numerator # 0

(***************************************************************************)
(* SpecDist: three polynomials are given; P may first be replaced by its   *)
(* synthetic-division quotient, then P * (Q + R) is computed.              *)
(***************************************************************************)
PolyInputsD ==
    {Poly(SeqValue(l)) : l \in CoeffLists(MaxLenA, MaxCoefA) \ {<<>>}}

InitDist ==
    /\ P \in PolyInputsD
    /\ Q \in PolyInputsD
    /\ R \in PolyInputsD
    /\ a = RatZero
    /\ out = NoOp
    /\ heap = EmptyHeap
    /\ args = <<>>

AssignQuotient ==
    /\ out = NoOp
    /\ P' = SynthDivPoly(P, a)
    /\ out' = [op |-> "SynthDivPoly"]
    /\ UNCHANGED <<Q, R, a, heap, args>>

CallDistribute ==
    /\ out' = [op |-> "PolyMul", val |-> PolyMul(P, PolyAdd(Q, R))]
    /\ UNCHANGED <<P, Q, R, a, heap, args>>

NextDist ==
    \/ AssignQuotient
    \/ CallDistribute

SpecDist == InitDist /\ [][NextDist]_vars

\* C9: PolyMul(P, PolyAdd(Q, R)) equals PolyAdd(PolyMul(P, Q), PolyMul(P, R)):
\* same coefficient sequence and same degree.
C9_MulDistributes ==
    out.op = "PolyMul" =>
        SamePoly(out.val, PolyAdd(PolyMul(P, Q), PolyMul(P, R)))

(***************************************************************************)
(* SpecPoly: R holds a host sequence of rationals; Poly is called on it    *)
(* and binds P, and PolyRatRoots is called on the current value of P.      *)
(***************************************************************************)
\* coefficient lists of length 0..MaxLenA with integer and fractional entries
RatLists == UNION {[1..n -> RatInputs] : n \in 0..MaxLenA}

InitPoly ==
    /\ R \in {SeqValue(l) : l \in RatLists}
    /\ P = ZeroPoly
    /\ Q = ZeroPoly
    /\ a = RatZero
    /\ out = NoOp
    /\ heap = EmptyHeap
    /\ args = <<>>

CallPoly ==
    /\ P' = Poly(R)
    /\ out' = [op |-> "Poly", val |-> Poly(R)]
    /\ UNCHANGED <<Q, R, a, heap, args>>

NextPoly ==
    \/ CallPoly
    \/ CallPolyRatRoots

SpecPoly == InitPoly /\ [][NextPoly]_vars

\* C17: Poly applied to an empty coefficient sequence fails with an error
\* and returns no polynomial.
C17_EmptyCoeffsRejected ==
    (out.op = "Poly" /\ Len(R.values) = 0) => out.val.type = "error"

\* C18: PolyRatRoots applied to a polynomial with a non-integer coefficient
\* fails with an error; it does not return a root list.
C18_FractionalCoeffsRejected ==
    (out.op = "PolyRatRoots" /\ ~IntegerCoeffs(P)) => out.val.type = "error"

(***************************************************************************)
(* Handlers of RationalFuncFunctions (rational-func.js)                    *)
(***************************************************************************)
\* what a handler that throws leaves: no value, the Error and its message
Thrown(message) == [type |-> "error", message |-> message]

RatFunc(numer, denom) == [type |-> "ratfunc", numer |-> numer, denom |-> denom]

\* !r?.numer || !r?.denom: a field that is absent is undefined, and every
\* polynomial object is truthy
RatFuncEval(r, x) ==
    IF "numer" \notin DOMAIN r \/ "denom" \notin DOMAIN r
    THEN Thrown("Expected rational function")
    ELSE [type |-> "string", value |-> "RatFuncEval not yet implemented"]

PartialFrac(r) == [type |-> "string", value |-> "PartialFrac not yet implemented"]

(***************************************************************************)
(* SpecRat: two polynomials and a rational are given; R is bound to what   *)
(* RatFunc returns on them, and RatFuncEval and PartialFrac are called on  *)
(* the current value of R.                                                 *)
(***************************************************************************)
\* the polynomials of the rational-function tests
RatFuncExamples ==
    {<<Rational(1, 1)>>,
     <<Rational(1, 1), Rational(2, 1)>>,
     <<Rational(-1, 1), Rational(1, 1)>>,
     <<Rational(1, 1), Rational(0, 1), Rational(1, 1)>>,
     <<Rational(-1, 1), Rational(0, 1), Rational(1, 1)>>}

RatFuncInputs ==
    {Poly(SeqValue(l)) : l \in (CoeffLists(MaxLenA, MaxCoefA) \ {<<>>}) \cup RatFuncExamples}

InitRat ==
    /\ P \in RatFuncInputs
    /\ Q \in RatFuncInputs
    /\ R = ZeroPoly
    /\ a \in RatInputs
    /\ out = NoOp
    /\ heap = EmptyHeap
    /\ args = <<>>

CallRatFunc ==
    /\ R' = RatFunc(P, Q)
    /\ out' = [op |-> "RatFunc", val |-> RatFunc(P, Q)]
    /\ UNCHANGED <<P, Q, a, heap, args>>

CallRatFuncEval ==
    /\ out' = [op |-> "RatFuncEval", val |-> RatFuncEval(R, a)]
    /\ UNCHANGED <<P, Q, R, a, heap, args>>

CallPartialFrac ==
    /\ out' = [op |-> "PartialFrac", val |-> PartialFrac(R)]
    /\ UNCHANGED <<P, Q, R, a, heap, args>>

NextRat ==
    \/ CallRatFunc
    \/ CallRatFuncEval
    \/ CallPartialFrac

SpecRat == InitRat /\ [][NextRat]_vars

\* C14: RatFuncEval(R, x) on a rational function R = RatFunc(N, D) fails
\* with an error when PolyEval(D, x) is zero and otherwise returns the exact
\* rational PolyEval(N, x) / PolyEval(D, x); (1+2x)/(1+x^2) at 1 gives 3/2.
C14_RatFuncEvalExact ==
    (out.op = "RatFuncEval" /\ R.type = "ratfunc") =>
        IF PolyEval(R.denom, a).numerator = 0
        THEN out.val.type = "error"
        ELSE out.val = RatDiv(PolyEval(R.numer, a), PolyEval(R.denom, a))

\* C15: every value RatFunc returns has a denominator that is not the zero
\* polynomial.
C15_DenominatorNonZero ==
    (out.op = "RatFunc" /\ out.val.type = "ratfunc") => ~AllZero(out.val.denom)

\* N of lower degree than D, and D of degree n with n distinct rational roots
\* among the candidates
RatRootsOf(poly) == {r \in RatInputs : IsRoot(poly, r)}

ProperDistinctRoots(r) ==
    /\ r.type = "ratfunc"
    /\ r.denom.degree >= 1
    /\ r.numer.degree < r.denom.degree
    /\ ~AllZero(r.numer)
    /\ Cardinality(RatRootsOf(r.denom)) = r.denom.degree

\* the residue of N/D at a simple root r of D: N(r) / D'(r)
Residue(r, root) ==
    RatDiv(PolyEval(r.numer, root), PolyEval(PolyDer(r.denom, 1), root))

\* C16: PartialFrac of a proper rational function whose denominator has only
\* distinct rational roots returns a zero quotient and one term per root with
\* the exact residue; for 1/(x^2-1) the terms are -1/2 at -1 and 1/2 at 1.
C16_PartialFracResidues ==
    (out.op = "PartialFrac" /\ ProperDistinctRoots(R)) =>
        /\ out.val.type # "string"
        /\ AllZero(out.val.quotient)
        /\ SeqRange(out.val.terms) =
              {[root |-> root, residue |-> Residue(R, root)] : root \in RatRootsOf(R.denom)}

(***************************************************************************)
(* SpecHeap: the handlers at the level of JavaScript arrays.  heap.arrays  *)
(* holds every array allocated so far (its index is its identity) and      *)
(* heap.polys every polynomial object, whose coeffs field is the address   *)
(* of its coefficient array.  map, slice, filter, spread and array         *)
(* literals allocate; reverse, sort, push and indexed stores write in      *)
(* place.                                                                  *)
(***************************************************************************)
Alloc(h, content) == [h EXCEPT !.arrays = Append(@, content)]

\* the address of the array allocated last
Top(h) == Len(h.arrays)

ReverseAt(h, addr) == [h EXCEPT !.arrays[addr] = Reverse(@)]

SortAt(h, addr) == [h EXCEPT !.arrays[addr] = sortRoots(@, Len(@))]

PushAt(h, addr, x) == [h EXCEPT !.arrays[addr] = Append(@, x)]

NewPolyObject(h, coeffsAddr, degree) ==
    [h EXCEPT !.polys =
        Append(@, [type |-> "polynomial", coeffs |-> coeffsAddr, degree |-> degree])]

\* extractCoeffs: poly.values.map(toRational), a new array
extractCoeffsH(h, addr) == Alloc(h, h.arrays[addr])

\* makeCoeffSequence: coeffs.map(...), a new array
makeCoeffSequenceH(h, addr) == Alloc(h, h.arrays[addr])

\* trimCoeffs: coeffs.slice(0, end + 1), a new array
trimCoeffsH(h, addr) == Alloc(h, trimCoeffs(h.arrays[addr]))

\* the common tail of the handlers: trim the array allocated last, wrap it and
\* return a polynomial object
finishTrimmed(h) ==
    LET h1 == trimCoeffsH(h, Top(h))
        h2 == makeCoeffSequenceH(h1, Top(h1))
    IN NewPolyObject(h2, Top(h2), Len(h2.arrays[Top(h2)]) - 1)

\* the tail of the handlers that do not trim
finishUntrimmed(h, addr) ==
    LET h1 == makeCoeffSequenceH(h, addr)
    IN NewPolyObject(h1, Top(h1), Len(h1.arrays[Top(h1)]) - 1)

\* synthDivide: [...coeffs].reverse(), result filled by push,
\* result.slice(0, n - 1).reverse(); the quotient is the array allocated last
synthDivideH(h, addr, c) ==
    IF Len(h.arrays[addr]) = 0
    THEN [heap |-> Alloc(h, <<>>), remainder |-> RatZero]
    ELSE LET n == Len(h.arrays[addr])
             h1 == ReverseAt(Alloc(h, h.arrays[addr]), Top(h) + 1)
             descCoeffs == h1.arrays[Top(h1)]
             h2 == Alloc(h1, synthLoop(descCoeffs, c, 2, <<descCoeffs[1]>>))
             result == h2.arrays[Top(h2)]
             h3 == ReverseAt(Alloc(h2, SubSeq(result, 1, n - 1)), Top(h2) + 1)
         IN [heap |-> h3, remainder |-> result[n]]

\* Poly on a host sequence whose values array is at addr
PolyH(h, addr) == finishTrimmed(extractCoeffsH(h, addr))

PolyAddH(h, i, j) ==
    LET h1 == extractCoeffsH(h, h.polys[i].coeffs)
        h2 == extractCoeffsH(h1, h.polys[j].coeffs)
    IN finishTrimmed(Alloc(h2, addResult(h2.arrays[Top(h1)], h2.arrays[Top(h2)])))

PolySubH(h, i, j) ==
    LET h1 == extractCoeffsH(h, h.polys[i].coeffs)
        h2 == extractCoeffsH(h1, h.polys[j].coeffs)
    IN finishTrimmed(Alloc(h2, subResult(h2.arrays[Top(h1)], h2.arrays[Top(h2)])))

PolyMulH(h, i, j) ==
    LET h1 == extractCoeffsH(h, h.polys[i].coeffs)
        h2 == extractCoeffsH(h1, h.polys[j].coeffs)
        pCoeffs == h2.arrays[Top(h1)]
        qCoeffs == h2.arrays[Top(h2)]
    IN IF Len(pCoeffs) = 0 \/ Len(qCoeffs) = 0
       THEN LET h3 == makeCoeffSequenceH(Alloc(h2, <<RatZero>>), Top(h2) + 1)
            IN NewPolyObject(h3, Top(h3), -1)
       ELSE finishTrimmed(Alloc(h2, mulResult(pCoeffs, qCoeffs)))

PolyScaleH(h, i, c) ==
    LET h1 == extractCoeffsH(h, h.polys[i].coeffs)
    IN finishTrimmed(Alloc(h1, scaleResult(h1.arrays[Top(h1)], c)))

PolyNegH(h, i) ==
    LET h1 == extractCoeffsH(h, h.polys[i].coeffs)
        h2 == Alloc(h1, negResult(h1.arrays[Top(h1)]))
    IN finishUntrimmed(h2, Top(h2))

\* the derivative loop: every pass allocates newCoeffs; coeffs is the array
\* allocated last
RECURSIVE derLoopH(_, _, _)
derLoopH(h, t, times) ==
    IF t >= times THEN h
    ELSE IF Len(h.arrays[Top(h)]) <= 1 THEN Alloc(h, <<RatZero>>)
    ELSE derLoopH(Alloc(h, derStep(h.arrays[Top(h)])), t + 1, times)

PolyDerH(h, i, n) ==
    finishTrimmed(derLoopH(extractCoeffsH(h, h.polys[i].coeffs), 0, n))

PolyIntH(h, i, c) ==
    LET h1 == extractCoeffsH(h, h.polys[i].coeffs)
    IN finishTrimmed(Alloc(h1, intResult(h1.arrays[Top(h1)], c)))

\* faulty variant: the division works on the polynomial's own array, reversing it in
\* place, instead of on copies
SynthDivPolyHInPlace(h, i, c) ==
    LET addr == h.polys[i].coeffs
        h1 == ReverseAt(h, addr)
        descCoeffs == h1.arrays[addr]
        result == IF Len(descCoeffs) = 0 THEN <<>>
                  ELSE synthLoop(descCoeffs, c, 2, <<descCoeffs[1]>>)
        h2 == ReverseAt(Alloc(h1, SubSeq(result, 1, Len(result) - 1)), Top(h1) + 1)
    IN finishUntrimmed(h2, Top(h2))

SynthDivPolyH(h, i, c) ==
    LET d == synthDivideH(extractCoeffsH(h, h.polys[i].coeffs), Top(h) + 1, c)
    IN finishUntrimmed(d.heap, Top(d.heap))

\* SynthDiv: the quotient object, then the array {quotient, remainder}
SynthDivH(h, i, c) ==
    LET d == synthDivideH(extractCoeffsH(h, h.polys[i].coeffs), Top(h) + 1, c)
        h1 == finishUntrimmed(d.heap, Top(d.heap))
    IN Alloc(h1, <<[poly |-> Len(h1.polys)], d.remainder>>)

\* the PolyRebase loop: coeffs is replaced by each quotient, remainders are
\* pushed onto taylorCoeffs
RECURSIVE rebaseLoopH(_, _, _, _, _)
rebaseLoopH(h, coeffsAddr, aRat, i, taylorAddr) ==
    IF i < Len(h.arrays[coeffsAddr])
    THEN LET d == synthDivideH(h, coeffsAddr, aRat)
         IN rebaseLoopH(PushAt(d.heap, taylorAddr, d.remainder), Top(d.heap),
                        aRat, i + 1, taylorAddr)
    ELSE h

PolyRebaseH(h, i, aRat) ==
    LET h1 == extractCoeffsH(h, h.polys[i].coeffs)
        h2 == Alloc(h1, <<>>)
    IN finishUntrimmed(rebaseLoopH(h2, Top(h1), aRat, 0, Top(h2)), Top(h2))

\* PolyDescartes: two filters, one map, the two count arrays and the values
\* array, which is allocated last
PolyDescartesH(h, i) ==
    LET h1 == extractCoeffsH(h, h.polys[i].coeffs)
        coeffs == h1.arrays[Top(h1)]
        h2 == Alloc(h1, nonZeroOf(coeffs))
        h3 == Alloc(h2, negOddCoeffs(coeffs))
        h4 == Alloc(h3, nonZeroOf(negOddCoeffs(coeffs)))
        h5 == Alloc(h4, possibleCounts(signChanges(coeffs)))
        h6 == Alloc(h5, possibleCounts(signChanges(negOddCoeffs(coeffs))))
    IN Alloc(h6, <<"positiveRoots", [array |-> Top(h5)],
                   "negativeRoots", [array |-> Top(h6)]>>)

\* PolyRatRoots: pDivs, qDivs and roots are filled by push, roots is sorted in
\* place and returned as the values array, which is allocated last
PolyRatRootsH(h, i) ==
    LET h1 == extractCoeffsH(h, h.polys[i].coeffs)
        coeffs == h1.arrays[Top(h1)]
    IN IF Len(coeffs) = 0 THEN Alloc(h1, <<>>)
       ELSE LET p == AbsInt(coeffs[1].numerator)
                q == AbsInt(coeffs[Len(coeffs)].numerator)
            IN IF p = 0 \/ q = 0 THEN Alloc(h1, <<>>)
               ELSE LET h2 == Alloc(Alloc(h1, divisors(p)), divisors(q))
                        found == candidateLoop(coeffs, divisors(p), divisors(q), 0,
                                               [tested |-> {}, roots |-> <<>>]).roots
                    IN SortAt(Alloc(h2, found), Top(h2) + 1)

\* the coefficient lists and the divisors/centres of the polynomial tests
HeapExamples ==
    {<<Rational(1, 1), Rational(2, 1), Rational(3, 1)>>,
     <<Rational(0, 1), Rational(0, 1), Rational(1, 1)>>,
     <<Rational(6, 1), Rational(-5, 1), Rational(1, 1)>>}

HeapScalars == {Rational(1, 1), Rational(2, 1)}

Objs == 1..Len(heap.polys)

\* the call returned: h is the heap it leaves, kind tells whether it returned
\* a polynomial object or a sequence (array)
Return(op, h, kind) ==
    /\ Len(h.polys) <= MaxObjs
    /\ Len(h.arrays) <= MaxArrays
    /\ \A i \in 1..Len(h.polys) :
          LET coeffs == h.arrays[h.polys[i].coeffs]
          IN /\ Len(coeffs) <= MaxLenH
             /\ \A k \in 1..Len(coeffs) :
                   /\ AbsInt(coeffs[k].numerator) <= CapNumH
                   /\ coeffs[k].denominator <= CapDenH
    /\ heap' = h
    /\ out' = [op |-> op, kind |-> kind,
               result |-> IF kind = "poly" THEN Len(h.polys) ELSE Top(h)]
    /\ UNCHANGED <<P, Q, R, a, args>>

InitHeap ==
    /\ P = ZeroPoly
    /\ Q = ZeroPoly
    /\ R = ZeroPoly
    /\ a = RatZero
    /\ out = NoOp
    /\ heap = EmptyHeap
    /\ args = <<>>

HPoly == \E l \in HeapExamples : Return("Poly", PolyH(Alloc(heap, l), Top(heap) + 1), "poly")

HPolyAdd == \E i \in Objs, j \in Objs : Return("PolyAdd", PolyAddH(heap, i, j), "poly")

HPolySub == \E i \in Objs, j \in Objs : Return("PolySub", PolySubH(heap, i, j), "poly")

HPolyMul == \E i \in Objs, j \in Objs : Return("PolyMul", PolyMulH(heap, i, j), "poly")

HPolyScale ==
    \E i \in Objs, c \in HeapScalars : Return("PolyScale", PolyScaleH(heap, i, c), "poly")

HPolyNeg == \E i \in Objs : Return("PolyNeg", PolyNegH(heap, i), "poly")

HPolyDer == \E i \in Objs, n \in 1..MaxDer : Return("PolyDer", PolyDerH(heap, i, n), "poly")

HPolyInt ==
    \E i \in Objs, c \in HeapScalars : Return("PolyInt", PolyIntH(heap, i, c), "poly")

HSynthDiv ==
    \E i \in Objs, c \in HeapScalars : Return("SynthDiv", SynthDivH(heap, i, c), "array")

HSynthDivPoly ==
    \E i \in Objs, c \in HeapScalars :
        Return("SynthDivPoly", SynthDivPolyH(heap, i, c), "poly")

HPolyRebase ==
    \E i \in Objs, c \in HeapScalars : Return("PolyRebase", PolyRebaseH(heap, i, c), "poly")

HPolyDescartes ==
    \E i \in Objs : Return("PolyDescartes", PolyDescartesH(heap, i), "array")

HPolyRatRoots == \E i \in Objs : Return("PolyRatRoots", PolyRatRootsH(heap, i), "array")

NextHeap ==
    \/ HPoly
    \/ HPolyAdd
    \/ HPolySub
    \/ HPolyMul
    \/ HPolyScale
    \/ HPolyNeg
    \/ HPolyDer
    \/ HPolyInt
    \/ HSynthDiv
    \/ HSynthDivPoly
    \/ HPolyRebase
    \/ HPolyDescartes
    \/ HPolyRatRoots

SpecHeap == InitHeap /\ [][NextHeap]_vars

\* C6: no polynomial operation mutates its arguments: across every call the
\* fields and the coefficient array of every existing polynomial object are
\* unchanged, and what the call returns is newly allocated.
C6_NoMutation ==
    [][out'.op \in {"PolyAdd", "PolySub", "PolyMul", "PolyScale", "PolyNeg",
                    "PolyDer", "PolyInt", "SynthDiv", "SynthDivPoly",
                    "PolyRebase", "PolyDescartes", "PolyRatRoots"}
       => /\ \A i \in Objs :
                /\ heap'.polys[i] = heap.polys[i]
                /\ heap'.arrays[heap.polys[i].coeffs] = heap.arrays[heap.polys[i].coeffs]
          /\ out'.kind = "poly" =>
                /\ out'.result > Len(heap.polys)
                /\ heap'.polys[out'.result].coeffs > Len(heap.arrays)
          /\ out'.kind = "array" => out'.result > Len(heap.arrays)]_vars

C6_Witness ==
    /\ out.op = "SynthDivPoly"
    /\ Len(heap.polys) = 3
    /\ heap.polys[3].degree = 2
    /\ heap.arrays[heap.polys[1].coeffs] # Reverse(heap.arrays[heap.polys[1].coeffs])

(***************************************************************************)
(* Helpers of number-theory.js.  BigInt division truncates toward zero and *)
(* the BigInt remainder takes the sign of the dividend.                    *)
(***************************************************************************)
\* m / n on BigInts, n nonzero
TruncDiv(m, n) ==
    IF (m < 0) = (n < 0) THEN AbsInt(m) \div AbsInt(n) ELSE -(AbsInt(m) \div AbsInt(n))

\* m % n on BigInts, n nonzero
TruncRem(m, n) == m - n * TruncDiv(m, n)

\* new Integer(v)
NewInteger(v) == [type |-> "integer", value |-> v]

\* while (b !== 0n) [a, b] = [b, a % b]
RECURSIVE gcdLoop(_, _)
gcdLoop(aVal, bVal) == IF bVal = 0 THEN aVal ELSE gcdLoop(bVal, TruncRem(aVal, bVal))

gcdBigInt(aVal, bVal) == gcdLoop(AbsInt(aVal), AbsInt(bVal))

\* extGcdBigInt: <<g, x, y>>
RECURSIVE extGcdBigInt(_, _)
extGcdBigInt(aVal, bVal) ==
    IF bVal = 0 THEN <<aVal, 1, 0>>
    ELSE LET r == extGcdBigInt(bVal, TruncRem(aVal, bVal))
         IN <<r[1], r[3], r[2] - TruncDiv(aVal, bVal) * r[3]>>

(***************************************************************************)
(* Handlers of NumberTheory                                                *)
(***************************************************************************)
\* the loop of Gcd over the arguments after the first
RECURSIVE gcdArgsLoop(_, _, _)
gcdArgsLoop(values, i, result) ==
    IF i > Len(values) THEN result
    ELSE gcdArgsLoop(values, i + 1, gcdBigInt(result, values[i]))

Gcd(allArgs) ==
    IF Len(allArgs) = 0 THEN Thrown("Gcd requires at least one argument")
    ELSE NewInteger(gcdArgsLoop(allArgs, 2, allArgs[1]))

ExtGcd(aArg, bArg) ==
    LET r == extGcdBigInt(aArg, bArg)
    IN [type |-> "sequence",
        values |-> <<NewInteger(r[1]), NewInteger(r[2]), NewInteger(r[3])>>,
        lastValue |-> NewInteger(r[3])]

Mod(aArg, mArg) ==
    IF mArg = 0 THEN Thrown("Modulus cannot be zero")
    ELSE NewInteger(TruncRem(TruncRem(aArg, mArg) + mArg, mArg))

Quot(aArg, bArg) ==
    IF bArg = 0 THEN Thrown("Cannot divide by zero")
    ELSE NewInteger(TruncDiv(aArg, bArg))

\* the inner loop of Bernoulli: A[j - 1] = (A[j - 1] - A[j]) * j for j = m..1
\* (A[j] of the code is A[j + 1] here)
RECURSIVE bernoulliInner(_, _)
bernoulliInner(A, j) ==
    IF j < 1 THEN A
    ELSE bernoulliInner([A EXCEPT ![j] = RatMul(RatSub(A[j], A[j + 1]), Rational(j, 1))],
                        j - 1)

\* the outer loop of Bernoulli: A[m] = 1/(m + 1), then the inner loop
RECURSIVE bernoulliOuter(_, _, _)
bernoulliOuter(A, m, val) ==
    IF m > val THEN A
    ELSE bernoulliOuter(bernoulliInner(Append(A, Rational(1, m + 1)), m), m + 1, val)

Bernoulli(n) ==
    IF n < 0 THEN Thrown("Bernoulli requires non-negative integer")
    ELSE bernoulliOuter(<<>>, 0, n)[1]

\* ModInv: throws when g is not 1; x % mVal is a RangeError when mVal is 0
ModInv(aArg, mArg) ==
    LET r == extGcdBigInt(aArg, mArg)
    IN IF r[1] # 1 THEN Thrown("No modular inverse")
       ELSE IF mArg = 0 THEN Thrown("RangeError: Division by zero")
       ELSE NewInteger(TruncRem(TruncRem(r[2], mArg) + mArg, mArg))

(***************************************************************************)
(* SpecNum: a number-theory handler is called on two integer arguments.    *)
(***************************************************************************)
\* the argument lists of the number-theory tests
NumExamples == {<<48, 18>>, <<35, 15>>, <<3, 7>>, <<4, 8>>}

InitNum ==
    /\ args \in {<<x, y>> : x \in -MaxArg..MaxArg, y \in -MaxArg..MaxArg} \cup NumExamples
    /\ P = ZeroPoly
    /\ Q = ZeroPoly
    /\ R = ZeroPoly
    /\ a = RatZero
    /\ out = NoOp
    /\ heap = EmptyHeap

CallGcd ==
    /\ out' = [op |-> "Gcd", val |-> Gcd(args)]
    /\ UNCHANGED <<P, Q, R, a, heap, args>>

CallExtGcd ==
    /\ out' = [op |-> "ExtGcd", val |-> ExtGcd(args[1], args[2])]
    /\ UNCHANGED <<P, Q, R, a, heap, args>>

CallModInv ==
    /\ out' = [op |-> "ModInv", val |-> ModInv(args[1], args[2])]
    /\ UNCHANGED <<P, Q, R, a, heap, args>>

CallMod ==
    /\ out' = [op |-> "Mod", val |-> Mod(args[1], args[2])]
    /\ UNCHANGED <<P, Q, R, a, heap, args>>

CallQuot ==
    /\ out' = [op |-> "Quot", val |-> Quot(args[1], args[2])]
    /\ UNCHANGED <<P, Q, R, a, heap, args>>

NextNum ==
    \/ CallGcd
    \/ CallExtGcd
    \/ CallModInv
    \/ CallMod
    \/ CallQuot

SpecNum == InitNum /\ [][NextNum]_vars

\* the greatest common divisor: the largest d >= 0 dividing both, 0 for (0, 0)
RefGcd(m, n) ==
    IF m = 0 /\ n = 0 THEN 0
    ELSE CHOOSE d \in 1..(AbsInt(m) + AbsInt(n)) :
            /\ AbsInt(m) % d = 0 /\ AbsInt(n) % d = 0
            /\ \A e \in (d + 1)..(AbsInt(m) + AbsInt(n)) :
                    ~(AbsInt(m) % e = 0 /\ AbsInt(n) % e = 0)

\* C19: for all integers a and b, ExtGcd(a, b) returns (g, x, y) with
\* a*x + b*y = g, where g is the greatest common divisor of a and b, the
\* non-negative value that Gcd(a, b) returns; ExtGcd(35, 15) has g = 5.
C19_ExtGcdBezout ==
    out.op = "ExtGcd" =>
        LET g == out.val.values[1].value
            x == out.val.values[2].value
            y == out.val.values[3].value
        IN /\ args[1] * x + args[2] * y = g
           /\ g = RefGcd(args[1], args[2])
           /\ NewInteger(g) = Gcd(args)
           /\ (args = <<35, 15>> => g = 5)

\* C20: for every integer a and modulus m >= 2, ModInv(a, m) returns r with
\* 0 <= r < m and (a*r) mod m = 1 when gcd(a, m) = 1, and fails with an
\* error when gcd(a, m) is not 1.
C20_ModInvExact ==
    (out.op = "ModInv" /\ args[2] >= 2) =>
        IF RefGcd(args[1], args[2]) = 1
        THEN /\ out.val.type = "integer"
             /\ out.val.value \in 0..(args[2] - 1)
             /\ (args[1] * out.val.value) % args[2] = 1
        ELSE out.val.type = "error"

(***************************************************************************)
(* Handlers of PiecewiseFunctions                                          *)
(***************************************************************************)
\* toRational: a Rational as it is, an Integer as value/1
toRational(val) ==
    IF "value" \in DOMAIN val THEN Rational(val.value, 1) ELSE val

Rect(x, lo, hi) ==
    LET geA == RatCompare(toRational(x), toRational(lo)) >= 0
        leB == RatCompare(toRational(x), toRational(hi)) <= 0
    IN NewInteger(IF geA /\ leB THEN 1 ELSE 0)

\* faulty variant: the upper bound is not tested
ClampNoUpper(x, lo, hi) ==
    IF RatCompare(toRational(x), toRational(lo)) < 0 THEN toRational(lo)
    ELSE toRational(x)

Clamp(x, lo, hi) ==
    IF RatCompare(toRational(x), toRational(lo)) < 0 THEN toRational(lo)
    ELSE IF RatCompare(toRational(x), toRational(hi)) > 0 THEN toRational(hi)
    ELSE toRational(x)

Chi(x, lo, hi) ==
    LET geA == RatCompare(toRational(x), toRational(lo)) >= 0
        leB == RatCompare(toRational(x), toRational(hi)) <= 0
    IN NewInteger(IF geA /\ leB THEN 1 ELSE 0)

ChiOpen(x, lo, hi) ==
    LET gtA == RatCompare(toRational(x), toRational(lo)) > 0
        ltB == RatCompare(toRational(x), toRational(hi)) < 0
    IN NewInteger(IF gtA /\ ltB THEN 1 ELSE 0)

\* faulty variant: the left endpoint is included
ChiLeftOpenIncludesLeft(x, lo, hi) ==
    LET gtA == RatCompare(toRational(x), toRational(lo)) >= 0
        leB == RatCompare(toRational(x), toRational(hi)) <= 0
    IN NewInteger(IF gtA /\ leB THEN 1 ELSE 0)

ChiLeftOpen(x, lo, hi) ==
    LET gtA == RatCompare(toRational(x), toRational(lo)) > 0
        leB == RatCompare(toRational(x), toRational(hi)) <= 0
    IN NewInteger(IF gtA /\ leB THEN 1 ELSE 0)

ChiRightOpen(x, lo, hi) ==
    LET geA == RatCompare(toRational(x), toRational(lo)) >= 0
        ltB == RatCompare(toRational(x), toRational(hi)) < 0
    IN NewInteger(IF geA /\ ltB THEN 1 ELSE 0)

(***************************************************************************)
(* SpecStep: an indicator or Clamp is called on three rational arguments   *)
(* x, a, b (x, lo, hi).                                                    *)
(***************************************************************************)
\* the host numbers: Rational values and Integer objects
NumberInputs == RatInputs \cup {NewInteger(k) : k \in -MaxNum..MaxNum}

InitStep ==
    /\ args \in [1..3 -> NumberInputs]
    /\ P = ZeroPoly
    /\ Q = ZeroPoly
    /\ R = ZeroPoly
    /\ a = RatZero
    /\ out = NoOp
    /\ heap = EmptyHeap

CallRect ==
    /\ out' = [op |-> "Rect", val |-> Rect(args[1], args[2], args[3])]
    /\ UNCHANGED <<P, Q, R, a, heap, args>>

CallClamp ==
    /\ out' = [op |-> "Clamp", val |-> Clamp(args[1], args[2], args[3])]
    /\ UNCHANGED <<P, Q, R, a, heap, args>>

CallChi ==
    /\ out' = [op |-> "Chi", val |-> Chi(args[1], args[2], args[3])]
    /\ UNCHANGED <<P, Q, R, a, heap, args>>

CallChiOpen ==
    /\ out' = [op |-> "ChiOpen", val |-> ChiOpen(args[1], args[2], args[3])]
    /\ UNCHANGED <<P, Q, R, a, heap, args>>

CallChiLeftOpen ==
    /\ out' = [op |-> "ChiLeftOpen", val |-> ChiLeftOpen(args[1], args[2], args[3])]
    /\ UNCHANGED <<P, Q, R, a, heap, args>>

CallChiRightOpen ==
    /\ out' = [op |-> "ChiRightOpen", val |-> ChiRightOpen(args[1], args[2], args[3])]
    /\ UNCHANGED <<P, Q, R, a, heap, args>>

NextStep ==
    \/ CallRect
    \/ CallClamp
    \/ CallChi
    \/ CallChiOpen
    \/ CallChiLeftOpen
    \/ CallChiRightOpen

SpecStep == InitStep /\ [][NextStep]_vars

\* the order of the rationals, by cross-multiplication (denominators positive)
RatLess(x, y) == x.numerator * y.denominator < y.numerator * x.denominator

RatLeq(x, y) == x.numerator * y.denominator <= y.numerator * x.denominator

\* 1 when the condition holds and 0 otherwise
Indicator(cond) == NewInteger(IF cond THEN 1 ELSE 0)

\* C24: each interval indicator returns 1 exactly when x lies in its
\* interval and 0 otherwise: Chi and Rect for a <= x <= b, ChiOpen for
\* a < x < b, ChiLeftOpen for a < x <= b, ChiRightOpen for a <= x < b.
C24_IndicatorsExact ==
    LET x == toRational(args[1])
        lo == toRational(args[2])
        hi == toRational(args[3])
    IN /\ out.op \in {"Chi", "Rect"} =>
            out.val = Indicator(RatLeq(lo, x) /\ RatLeq(x, hi))
       /\ out.op = "ChiOpen" => out.val = Indicator(RatLess(lo, x) /\ RatLess(x, hi))
       /\ out.op = "ChiLeftOpen" => out.val = Indicator(RatLess(lo, x) /\ RatLeq(x, hi))
       /\ out.op = "ChiRightOpen" => out.val = Indicator(RatLeq(lo, x) /\ RatLess(x, hi))

C24_Witness ==
    /\ out.op = "ChiLeftOpen"
    /\ args[1] = Rational(1, 2)
    /\ args[2] = Rational(1, 2)
    /\ args[3] = NewInteger(1)
    /\ out.val.value = 0

\* C25: for lo <= hi, Clamp(x, lo, hi) returns lo when x < lo, hi when
\* x > hi and x otherwise; the result lies in [lo, hi] and clamping it again
\* returns it unchanged.
C25_ClampExact ==
    LET x == toRational(args[1])
        lo == toRational(args[2])
        hi == toRational(args[3])
    IN (out.op = "Clamp" /\ RatLeq(lo, hi)) =>
        /\ out.val = (IF RatLess(x, lo) THEN lo ELSE IF RatLess(hi, x) THEN hi ELSE x)
        /\ RatLeq(lo, out.val) /\ RatLeq(out.val, hi)
        /\ Clamp(out.val, lo, hi) = out.val

C25_Witness ==
    /\ out.op = "Clamp"
    /\ args[1] = NewInteger(2)
    /\ args[2] = Rational(-1, 2)
    /\ args[3] = Rational(1, 2)
    /\ out.val = Rational(1, 2)

(***************************************************************************)
(* SpecArgs: a handler is called on an argument list of any length, the    *)
(* empty one included.  A handler with a named parameter reads the first   *)
(* argument, which is undefined when the list is empty.                    *)
(***************************************************************************)
\* the argument lists of the Gcd tests
ArgsExamples == {<<48, 18>>, <<12, 18, 24>>}

ArgLists == UNION {[1..n -> -MaxArgV..MaxArgV] : n \in 0..MaxArgs}

InitArgs ==
    /\ args \in ArgLists \cup ArgsExamples
    /\ P = ZeroPoly
    /\ Q = ZeroPoly
    /\ R = ZeroPoly
    /\ a = RatZero
    /\ out = NoOp
    /\ heap = EmptyHeap

\* toBigInt(undefined) throws; the index is kept within the bound
CallBernoulli ==
    /\ Len(args) > 0 => args[1] <= MaxArgV
    /\ out' = [op |-> "Bernoulli",
               val |-> IF Len(args) = 0 THEN Thrown("Cannot convert undefined to integer")
                       ELSE Bernoulli(args[1])]
    /\ UNCHANGED <<P, Q, R, a, heap, args>>

NextArgs ==
    \/ CallGcd
    \/ CallBernoulli

SpecArgs == InitArgs /\ [][NextArgs]_vars

\* Binomial(n, k) by Pascal's rule
RECURSIVE RefBinomial(_, _)
RefBinomial(n, k) ==
    IF k = 0 \/ k = n THEN 1 ELSE RefBinomial(n - 1, k - 1) + RefBinomial(n - 1, k)

\* B0 = 1 and, for n >= 1, sum over k = 0..n of Binomial(n+1, k) * Bk = 0,
\* that is Bn = -(sum over k < n of Binomial(n+1, k) * Bk) / (n + 1)
RECURSIVE RefBernoulli(_)
RECURSIVE RefBernoulliSum(_, _)
RefBernoulliSum(n, k) ==
    IF k < 0 THEN RatZero
    ELSE RatAdd(RefBernoulliSum(n, k - 1),
                RatMul(Rational(RefBinomial(n + 1, k), 1), RefBernoulli(k)))

RefBernoulli(n) ==
    IF n = 0 THEN Rational(1, 1)
    ELSE RatDiv(RatNeg(RefBernoulliSum(n, n - 1)), Rational(n + 1, 1))

\* C23: for every integer n >= 0, Bernoulli(n) is the n-th Bernoulli number
\* of the convention B0 = 1, B1 = -1/2, B2 = 1/6, defined by B0 = 1 and
\* sum over k = 0..n of Binomial(n+1, k) * Bk = 0 for n >= 1.
C23_BernoulliRecurrence ==
    (out.op = "Bernoulli" /\ Len(args) > 0 /\ args[1] >= 0) =>
        /\ out.val = RefBernoulli(args[1])
        /\ (args[1] = 1 => out.val = Rational(-1, 2))
        /\ (args[1] = 2 => out.val = Rational(1, 6))

\* C30: for every non-empty argument list of integers Gcd returns a
\* non-negative integer that divides every argument and is a multiple of
\* every common divisor; Gcd(a) = |a| and Gcd(48, 18) = 6; Gcd with no
\* arguments fails with an error.
C30_GcdOfArguments ==
    out.op = "Gcd" =>
        IF Len(args) = 0 THEN out.val.type = "error"
        ELSE /\ out.val.type = "integer"
             /\ out.val.value >= 0
             /\ \A i \in 1..Len(args) :
                    IF out.val.value = 0 THEN args[i] = 0
                    ELSE AbsInt(args[i]) % out.val.value = 0
             /\ \A k \in 1..Len(args) : \A d \in 1..AbsInt(args[k]) :
                    (\A i \in 1..Len(args) : AbsInt(args[i]) % d = 0)
                        => out.val.value % d = 0
             /\ (Len(args) = 1 => out.val.value = AbsInt(args[1]))
             /\ (args = <<48, 18>> => out.val.value = 6)

\* C21: for every integer a and nonzero integer m of either sign, Mod(a, m)
\* returns a non-negative result congruent to a modulo m; Mod(a, 0) fails
\* with an error.
C21_ModNonNegative ==
    out.op = "Mod" =>
        IF args[2] = 0 THEN out.val.type = "error"
        ELSE /\ out.val.type = "integer"
             /\ out.val.value >= 0
             /\ (args[1] - out.val.value) % AbsInt(args[2]) = 0

\* floor(m / n) for nonzero n: the greatest integer not exceeding m / n
RefFloorDiv(m, n) == IF n > 0 THEN m \div n ELSE (-m) \div (-n)

\* C22: for every integer a and nonzero integer b, Quot(a, b) returns
\* floor(a / b), also when a and b have opposite signs; Quot(a, 0) fails with
\* an error.
C22_QuotIsFloor ==
    out.op = "Quot" =>
        IF args[2] = 0 THEN out.val.type = "error"
        ELSE /\ out.val.type = "integer"
             /\ out.val.value = RefFloorDiv(args[1], args[2])

(***************************************************************************)
(* Piecewise values: Piecewise and PiecewiseEval                           *)
(***************************************************************************)

\* longest argument list and largest Integer passed to Piecewise
MaxPieceArgs == 4
MaxPieceVal == 2

\* the host's null
NullValue == [type |-> "null"]

\* the while loop of Piecewise: pairs (args[i], args[i + 1]) while a pair
\* is left; i is the 1-based position of the next condition
piecesLoop(argList, i) ==
    LET RECURSIVE loop(_)
        loop(k) ==
            IF k < Len(argList)
            THEN <<[condition |-> argList[k], value |-> argList[k + 1]]>> \o loop(k + 2)
            ELSE <<>>
    IN loop(i)

Piecewise(allArgs) ==
    IF Len(allArgs) < 2
    THEN Thrown("Piecewise requires at least one condition/value pair")
    ELSE [type |-> "piecewise",
          pieces |-> piecesLoop(allArgs, 1),
          defaultValue |-> IF Len(allArgs) % 2 = 1 THEN allArgs[Len(allArgs)]
                           ELSE NullValue]

\* the truth of a condition: an Integer (or any object with a value) is
\* true when its value is not zero; every other object is truthy
conditionResult(condition) ==
    IF "value" \in DOMAIN condition THEN condition.value # 0 ELSE TRUE

PiecewiseEval(f, x) ==
    IF f.type # "piecewise" THEN Thrown("Expected piecewise function")
    ELSE LET hits == {i \in 1..Len(f.pieces) : conditionResult(f.pieces[i].condition)}
         IN IF hits # {}
            THEN f.pieces[CHOOSE i \in hits : \A j \in hits : i <= j].value
            ELSE IF f.defaultValue # NullValue THEN f.defaultValue
            ELSE Thrown("No matching condition in piecewise function")

\* conditions and values: Integer objects and two Rational objects
PieceValues ==
    {NewInteger(k) : k \in 0..MaxPieceVal} \cup {RatZero, Rational(1, 2)}

PieceArgLists == UNION {[1..n -> PieceValues] : n \in 0..MaxPieceArgs}

\* F is unbound (R holds no piecewise value) until Piecewise has returned
InitPiece ==
    /\ args \in PieceArgLists
    /\ P = ZeroPoly
    /\ Q = ZeroPoly
    /\ R = ZeroPoly
    /\ a \in {RatZero, Rational(1, 1)}
    /\ out = NoOp
    /\ heap = EmptyHeap

\* F := Piecewise(args): a throw leaves F as it was
CallPiecewise ==
    /\ out' = [op |-> "Piecewise", val |-> Piecewise(args)]
    /\ R' = IF out'.val.type = "error" THEN R ELSE out'.val
    /\ UNCHANGED <<P, Q, a, heap, args>>

CallPiecewiseEval ==
    /\ out' = [op |-> "PiecewiseEval", val |-> PiecewiseEval(R, a)]
    /\ UNCHANGED <<P, Q, R, a, heap, args>>

NextPiece ==
    \/ CallPiecewise
    \/ CallPiecewiseEval

SpecPiece == InitPiece /\ [][NextPiece]_vars

\* a condition is true when it is a nonzero number
RefNonzero(c) ==
    IF "value" \in DOMAIN c THEN c.value # 0 ELSE c.numerator # 0

\* C26: PiecewiseEval of a value built by Piecewise(c1, v1, ..., cn, vn) or
\* Piecewise(c1, v1, ..., cn, vn, d) returns vi for the smallest i whose
\* condition ci is nonzero; when no condition is nonzero it returns the
\* default d if the number of arguments was odd and fails otherwise;
\* Piecewise with fewer than two arguments fails.
C26_FirstTrueCondition ==
    /\ (out.op = "Piecewise" /\ Len(args) < 2) => out.val.type = "error"
    /\ (out.op = "PiecewiseEval" /\ R.type = "piecewise") =>
           LET n == Len(args) \div 2
               hits == {i \in 1..n : RefNonzero(args[2 * i - 1])}
           IN IF hits # {}
              THEN out.val = args[2 * (CHOOSE i \in hits : \A j \in hits : i <= j)]
              ELSE IF Len(args) % 2 = 1 THEN out.val = args[Len(args)]
              ELSE out.val = Thrown("No matching condition in piecewise function")

\* C27: for every polynomial P with n = deg(P) + 1 coefficients,
\* PolyRebase(P, a) returns exactly n Taylor coefficients (one per synthetic
\* division), so the result has the degree of P and its highest coefficient
\* is the leading coefficient of P; x^2 rebased at 1 gives {1, 2, 1}.
C27_RebaseKeepsDegree ==
    out.op = "PolyRebase" =>
        LET coeffs == extractCoeffs(P)
            result == extractCoeffs(out.val)
        IN /\ Len(result) = Len(coeffs)
           /\ out.val.degree = P.degree
           /\ (Len(coeffs) > 0 => result[Len(result)] = coeffs[Len(coeffs)])
           /\ (coeffs = <<RatZero, RatZero, Rational(1, 1)>> /\ a = Rational(1, 1))
                  => result = <<Rational(1, 1), Rational(2, 1), Rational(1, 1)>>

\* C28: for every polynomial P of degree >= 1 and every rational c, with
\* quotient SynthDivPoly(P, c) and remainder SynthDiv(P, c).remainder, P is
\* quotient * (x - c) + remainder, and the quotient has degree deg(P) - 1
\* and the leading coefficient of P; for Poly({-6, 11, -6, 1}) and c = 1
\* the quotient is {6, -5, 1} and the remainder 0.
C28_DivisionIdentity ==
    (out.op = "SynthDivPoly" /\ P.degree >= 1) =>
        LET quot == out.val
            rem == SynthDiv(P, a).remainder
            divisor == Poly(SeqValue(<<RatSub(RatZero, a), Rational(1, 1)>>))
            back == PolyAdd(PolyMul(quot, divisor), Poly(SeqValue(<<rem>>)))
            coeffs == extractCoeffs(P)
            qCoeffs == extractCoeffs(quot)
        IN /\ extractCoeffs(back) = coeffs
           /\ back.degree = P.degree
           /\ quot.degree = P.degree - 1
           /\ Len(qCoeffs) = Len(coeffs) - 1
           /\ qCoeffs[Len(qCoeffs)] = coeffs[Len(coeffs)]
           /\ (coeffs = <<Rational(-6, 1), Rational(11, 1), Rational(-6, 1), Rational(1, 1)>>
                   /\ a = Rational(1, 1))
                  => /\ qCoeffs = <<Rational(6, 1), Rational(-5, 1), Rational(1, 1)>>
                     /\ rem = RatZero

C28_Witness ==
    /\ out.op = "SynthDivPoly"
    /\ extractCoeffs(P) = <<Rational(-6, 1), Rational(11, 1), Rational(-6, 1), Rational(1, 1)>>
    /\ a = Rational(1, 1)
    /\ extractCoeffs(out.val) = <<Rational(6, 1), Rational(-5, 1), Rational(1, 1)>>

(***************************************************************************)
(* Repeated derivatives: PolyDer(P, n) with an explicit order              *)
(***************************************************************************)

\* largest total order of differentiation and most calls in a row
MaxDerOrder == 3
MaxDerCalls == 2

DerExamples ==
    {<<Rational(1, 1), Rational(2, 1), Rational(3, 1)>>,
     <<Rational(1, 1), Rational(2, 1), Rational(3, 1), Rational(4, 1)>>}

RECURSIVE SumOrders(_)
SumOrders(orders) ==
    IF Len(orders) = 0 THEN 0 ELSE orders[1] + SumOrders(Tail(orders))

\* P is the polynomial the user bound, Q the latest derivative, args the
\* orders passed so far; P is built by Poly or returned by PolyRebase
InitDer ==
    /\ P \in PolyInputs \cup {Poly(SeqValue(l)) : l \in DerExamples}
                        \cup {PolyRebase(poly, RatZero) : poly \in PolyInputs}
    /\ Q = P
    /\ R = ZeroPoly
    /\ a = RatZero
    /\ out = NoOp
    /\ heap = EmptyHeap
    /\ args = <<>>

\* Q := PolyDer(Q, n)
CallPolyDer ==
    \E n \in 0..MaxDerOrder :
        /\ Len(args) < MaxDerCalls
        /\ SumOrders(args) + n <= MaxDerOrder
        /\ Q' = PolyDer(Q, n)
        /\ out' = [op |-> "PolyDer", val |-> Q']
        /\ args' = Append(args, n)
        /\ UNCHANGED <<P, R, a, heap>>

NextDer == CallPolyDer

SpecDer == InitDer /\ [][NextDer]_vars

\* the single-step rule: the coefficient at index i becomes coeff[i]*i at
\* index i-1
RefDerRule(coeffs) ==
    [i \in 1..(Len(coeffs) - 1) |-> RatMul(Rational(i, 1), coeffs[i + 1])]

RECURSIVE RefDerTimes(_, _)
RefDerTimes(coeffs, n) ==
    IF n = 0 THEN coeffs ELSE RefDerTimes(RefDerRule(coeffs), n - 1)

\* a coefficient list without its zeros at the top: the polynomial it denotes
RECURSIVE RefStrip(_)
RefStrip(coeffs) ==
    IF Len(coeffs) > 0 /\ coeffs[Len(coeffs)] = RatZero
    THEN RefStrip(SubSeq(coeffs, 1, Len(coeffs) - 1))
    ELSE coeffs

\* C29: for every polynomial P and integer n >= 0, PolyDer(P, n) is the
\* single-step rule applied n times, PolyDer(P, 0) is P, the result is the
\* zero polynomial whenever deg(P) < n, and
\* PolyDer(PolyDer(P, j), k) = PolyDer(P, j + k); the second derivative of
\* Poly({1, 2, 3, 4}) is {6, 24}.
C29_DerIsIteratedRule ==
    out.op = "PolyDer" =>
        LET n == SumOrders(args)
            coeffs == extractCoeffs(P)
            result == extractCoeffs(Q)
        IN /\ RefStrip(result) = RefStrip(RefDerTimes(coeffs, n))
           /\ Q = PolyDer(P, n)
           /\ (n = 0 => RefStrip(result) = RefStrip(coeffs))
           /\ (P.degree < n => RefStrip(result) = <<>>)
           /\ ((P.degree < n /\ P.degree >= 0) => result = <<RatZero>> /\ Q.degree = 0)
           /\ (coeffs = <<Rational(1, 1), Rational(2, 1), Rational(3, 1), Rational(4, 1)>>
                   /\ n = 2)
                  => result = <<Rational(6, 1), Rational(24, 1)>>

\* two calls, the first reaching the constant term, together past the degree
C29_Witness ==
    /\ out.op = "PolyDer"
    /\ extractCoeffs(P) = <<Rational(1, 1), Rational(-2, 1), Rational(2, 1)>>
    /\ args = <<2, 1>>
    /\ extractCoeffs(Q) = <<RatZero>>

====
